---- MODULE Spec2Model ----
(***************************************************************************)
(* Model of the stellar-white-belt payment dApp: the sequential settlement *)
(* executor (split.js, executeSplit), its results view, and the page       *)
(* handlers that drive it (main.js), over an abstract Horizon ledger and   *)
(* an abstract Freighter wallet.                                           *)
(***************************************************************************)
EXTENDS Integers, Sequences, FiniteSets, TLC

VARIABLES
    runs,        \* RunIds -> activation record of one executeSplit call
    seqNum,      \* ledger: payer -> sequence number of the account
    balance,     \* ledger: payer -> spendable balance (ledger units)
    otherTxs,    \* number of payer transactions applied from outside the page
    publicKey,   \* main.js:39  the connected identity, NoKey when null
    screen,      \* which of heroState / actionState is shown
    connect,     \* the pending connectBtn handler
    previewBtn,  \* #previewSplitBtn: text, onclick property, disabled
    previews,    \* PreviewIds -> pending previewSplitBtn click handler
    handlers,    \* RunIds -> position of the executeSplitHandler awaiting the run
    sends,       \* SendIds -> pending sendBtn click handler
    sendBtnDisabled, \* #sendBtn disabled
    splitResults, \* #split-results: what renderSplitResults put there
    renderedRun, \* the participants of the run whose results are shown there
    call,        \* the function called by itself last: its arguments and what it returned
    history      \* history.js: pollingInterval, the live timers, the fetches in flight, the view

ledgerVars == <<seqNum, balance, otherTxs>>

pageVars == <<publicKey, screen, connect, previewBtn, previews, handlers, sends,
              sendBtnDisabled, splitResults, renderedRun>>

vars == <<runs, ledgerVars, pageVars, call, history>>

-----------------------------------------------------------------------------
(* Bounds of the model *)

MaxParticipants == 3
MaxRuns == 2
MaxPreviews == 1
MaxSends == 1
MaxPending == 2
MaxFormLines == 2
MaxAmount == 2
MaxBalance == 6
MaxFee == 1
MaxOtherTxs == 1
MaxCount == 4
MaxAddresses == 3
TickSeconds == 20

(* split.js:107  transactionBuilder.setTimeout(30) *)
TxTimeout == 30

(* balance.js:12  BASE_FEE_XLM = 0.00001, in units of 10^-7 XLM *)
BASE_FEE_XLM == 100

Keys == {"GPAYER"}
NoKey == ""

(* Sample address strings: two well-formed public keys, a 56-character G   *)
(* string that does not decode, a 56-character string with another prefix, *)
(* and a short one.                                                        *)
GA == "GAAAAAAAAAAAAAAAAAAAAAAAAAAAAAAAAAAAAAAAAAAAAAAAAAAAAAAA"
GB == "GBAAAAAAAAAAAAAAAAAAAAAAAAAAAAAAAAAAAAAAAAAAAAAAAAAAAAAA"
GBADSUM == "GBADSUMAAAAAAAAAAAAAAAAAAAAAAAAAAAAAAAAAAAAAAAAAAAAAAAAA"
XKEY == "XKEYAAAAAAAAAAAAAAAAAAAAAAAAAAAAAAAAAAAAAAAAAAAAAAAAAAAA"
GSHORT == "GSHORT"
XSHORT == "XSHORT"

Recipients == {GA, GB}
PreviewIds == 1..MaxPreviews
SendIds == 1..MaxSends
Memos == {"", "thanks", "a memo text longer than twenty-eight bytes"}
RunIds == 1..MaxRuns

ParticipantLists == UNION {[1..n -> Recipients] : n \in 1..MaxParticipants}

-----------------------------------------------------------------------------
(* Values a collaborator's promise can reject with.  A message is modelled *)
(* by the set of the phrases the catch block searches for that it holds.   *)

Phrases == {"User declined", "Insufficient balance"}

RejectValues ==
    {[kind |-> "nullish", message |-> {}],      \* undefined or null
     [kind |-> "nomessage", message |-> {}]}    \* a string, or an object without .message
    \cup {[kind |-> "error", message |-> S] : S \in SUBSET Phrases}

(* The Error thrown synchronously by Operation.payment / Memo.text *)
BuildError == [kind |-> "error", message |-> {}]

NoError == [kind |-> "none", message |-> {}]

(* error.message?.includes(phrase); the message of a value without one is undefined *)
includes(error, phrase) == error.kind = "error" /\ phrase \in error.message

-----------------------------------------------------------------------------
(* Run records *)

NoTx == [seq |-> 0, destination |-> "", amount |-> 0, fee |-> 0, age |-> 0]

NoFail == [step |-> "none", index |-> 0, cause |-> "none", error |-> NoError, otherTx |-> FALSE]

IdleRun ==
    [st |-> "idle", publicKey |-> "", participants |-> <<>>, amountPerPerson |-> 0,
     memo |-> "", currentIndex |-> 0, results |-> <<>>, sourceSeq |-> 0, tx |-> NoTx,
     signals |-> <<>>, log |-> <<>>, fail |-> NoFail, otherTx |-> FALSE]

NoOnclick == [set |-> FALSE, participants |-> <<>>, amountPerPerson |-> 0, memo |-> ""]

N(run) == Len(run.participants)

recipient(run) == run.participants[run.currentIndex]

Called(run, op) == [run EXCEPT !.log = Append(@, <<op, run.currentIndex, "call">>)]

Settled(run, op, how) == [run EXCEPT !.log = Append(@, <<op, run.currentIndex, how>>)]

(* split.js:198-229  the progress sink: one signal (current, total, status) *)
updateSplitProgress(run, current, total, status) ==
    [run EXCEPT !.signals = Append(@, <<current, total, status>>)]

(* split.js:76-84  head of one loop iteration, up to the pending loadAccount *)
BeginIteration(run, i) ==
    LET r1 == [run EXCEPT !.currentIndex = i, !.tx = NoTx]
        r2 == updateSplitProgress(r1, i, N(run), "processing")
    IN Called([r2 EXCEPT !.st = "loadAccount"], "loadAccount")

(* split.js:72-84  the call of executeSplit, up to its first await *)
executeSplit(payerKey, participants, amountPerPerson, memo) ==
    LET run == [IdleRun EXCEPT !.publicKey = payerKey, !.participants = participants,
                               !.amountPerPerson = amountPerPerson, !.memo = memo]
    IN IF participants = <<>> THEN [run EXCEPT !.st = "returned"]
       ELSE BeginIteration(run, 1)

(* Variant: the two message tests in the other order *)
errorMessageSwapped(error) ==
    IF includes(error, "Insufficient balance") THEN "Insufficient balance"
    ELSE IF includes(error, "User declined") THEN "Declined by user"
    ELSE "Payment failed"

(* split.js:138-144  "Determine error type" *)
errorMessage(error) ==
    IF includes(error, "User declined") THEN "Declined by user"
    ELSE IF includes(error, "Insufficient balance") THEN "Insufficient balance"
    ELSE "Payment failed"

(* split.js:140  error.message on undefined or null raises a TypeError *)
CatchThrows(error) == error.kind = "nullish"

(* Variant: the catch block without its break *)
CatchNoBreak(run, error) ==
    IF CatchThrows(error) THEN [run EXCEPT !.st = "threw"]
    ELSE LET r1 == [run EXCEPT !.results = Append(@,
                        [recipient |-> recipient(run), amount |-> run.amountPerPerson,
                         status |-> "failed", hash |-> 0, error |-> errorMessage(error)])]
             r2 == updateSplitProgress(r1, run.currentIndex, N(run), "failed")
         IN IF run.currentIndex < N(run) THEN BeginIteration(r2, run.currentIndex + 1)
            ELSE [r2 EXCEPT !.st = "returned"]

(* Variant: the failure recorded at the head of the list *)
CatchPrepends(run, error) ==
    IF CatchThrows(error) THEN [run EXCEPT !.st = "threw"]
    ELSE LET r1 == [run EXCEPT !.results =
                        <<[recipient |-> recipient(run), amount |-> run.amountPerPerson,
                           status |-> "failed", hash |-> 0, error |-> errorMessage(error)]>> \o @]
             r2 == updateSplitProgress(r1, run.currentIndex, N(run), "failed")
         IN [r2 EXCEPT !.st = "returned"]

(* Variant: a first failure at a position starts that iteration again *)
CatchRetriesOnce(run, error) ==
    IF CatchThrows(error) THEN [run EXCEPT !.st = "threw"]
    ELSE IF \A j \in 1..Len(run.log) : run.log[j] # <<"retry", run.currentIndex, "call">>
    THEN BeginIteration(Called(run, "retry"), run.currentIndex)
    ELSE LET r1 == [run EXCEPT !.results = Append(@,
                        [recipient |-> recipient(run), amount |-> run.amountPerPerson,
                         status |-> "failed", hash |-> 0, error |-> errorMessage(error)])]
             r2 == updateSplitProgress(r1, run.currentIndex, N(run), "failed")
         IN [r2 EXCEPT !.st = "returned"]

(* split.js:135-160  the catch block, the break and the return *)
Catch(run, error) ==
    IF CatchThrows(error) THEN [run EXCEPT !.st = "threw"]
    ELSE LET r1 == [run EXCEPT !.results = Append(@,
                        [recipient |-> recipient(run), amount |-> run.amountPerPerson,
                         status |-> "failed", hash |-> 0, error |-> errorMessage(error)])]
             r2 == updateSplitProgress(r1, run.currentIndex, N(run), "failed")
         IN [r2 EXCEPT !.st = "returned"]

(* A rejected await (or a synchronous throw) inside the try block *)
Fail(run, step, cause, error) ==
    Catch([Settled(run, step, "err") EXCEPT
               !.fail = [step |-> step, index |-> run.currentIndex, cause |-> cause,
                         error |-> error, otherTx |-> run.otherTx]],
          error)

(* Variant: the return placed inside the loop *)
OnSubmittedReturnsEarly(run, hash) ==
    LET r1 == [run EXCEPT !.results = Append(@,
                   [recipient |-> recipient(run), amount |-> run.amountPerPerson,
                    status |-> "success", hash |-> hash, error |-> ""])]
        r2 == updateSplitProgress(r1, run.currentIndex, N(run), "success")
    IN [r2 EXCEPT !.st = "returned"]

(* split.js:124-133, 158-160  after a resolved submitTransaction *)
OnSubmitted(run, hash) ==
    LET r1 == [run EXCEPT !.results = Append(@,
                   [recipient |-> recipient(run), amount |-> run.amountPerPerson,
                    status |-> "success", hash |-> hash, error |-> ""])]
        r2 == updateSplitProgress(r1, run.currentIndex, N(run), "success")
    IN IF run.currentIndex < N(run) THEN BeginIteration(r2, run.currentIndex + 1)
       ELSE [r2 EXCEPT !.st = "returned"]

(* split.js:94-105  Operation.payment and Memo.text validate their arguments *)
BuildThrows(run) == run.amountPerPerson <= 0 \/ Len(run.memo) > 28

(* split.js:88-107  the unsigned transfer; build() uses the loaded sequence + 1 *)
BuildTransaction(run, fee) ==
    [seq |-> run.sourceSeq + 1, destination |-> recipient(run),
     amount |-> run.amountPerPerson, fee |-> fee, age |-> 0]

-----------------------------------------------------------------------------
(* The ledger (Horizon) *)

Expired(tx) == tx.age > TxTimeout

SubmitVerdict(tx, k) ==
    IF Expired(tx) THEN "Timeout"
    ELSE IF tx.seq # seqNum[k] + 1 THEN "BadSequence"
    ELSE IF balance[k] < tx.amount + tx.fee THEN "Insufficient"
    ELSE "ok"

(* Every other run of the same payer sees a transaction it did not submit *)
MarkOthers(rs, r, k) ==
    [q \in RunIds |->
        IF q # r /\ rs[q].publicKey = k /\ rs[q].st \notin {"idle", "returned", "threw"}
        THEN [rs[q] EXCEPT !.otherTx = TRUE] ELSE rs[q]]

-----------------------------------------------------------------------------
(* Steps of a run: each is the continuation after one await.  When the    *)
(* run settles, the continuation of the handler that awaits it runs in the *)
(* same task.                                                              *)

Ended(run) == run.st \in {"returned", "threw"}

(* split.js:314-317  the first six and the last six characters *)
formatAddressShort(address) ==
    CASE address = "" -> "-"
      [] address = GA -> "GAAAAA...AAAAAA"
      [] address = GB -> "GBAAAA...AAAAAA"
      [] OTHER -> address

(* split.js:252-273  one item of the list per outcome: its number, the     *)
(* short address, the status label, and the explorer link of a success or  *)
(* the reason of a failure                                                 *)
resultItems(results) ==
    [i \in 1..Len(results) |->
        [number |-> i,
         address |-> formatAddressShort(results[i].recipient),
         label |-> IF results[i].status = "success" THEN "Sent" ELSE "Failed",
         link |-> IF results[i].status = "success" THEN results[i].hash ELSE 0,
         reason |-> IF results[i].status = "success" THEN "" ELSE results[i].error]]

(* A variant of split.js:241-243: full success reported when any payment succeeded *)
renderSplitResultsAnySuccess(results) ==
    LET successCount == Len(SelectSeq(results, LAMBDA o : o.status = "success"))
        failedCount == Len(SelectSeq(results, LAMBDA o : o.status = "failed"))
        totalCount == Len(results)
    IN [shown |-> TRUE,
        title |-> IF successCount > 0 THEN "All payments sent!" ELSE "succeeded",
        successCount |-> successCount,
        totalCount |-> totalCount,
        results |-> results,
        items |-> resultItems(results),
        retryHint |-> failedCount > 0,
        retryNames |-> <<>>]

(* split.js:234-285 *)
renderSplitResults(results) ==
    LET successCount == Len(SelectSeq(results, LAMBDA o : o.status = "success"))
        failedCount == Len(SelectSeq(results, LAMBDA o : o.status = "failed"))
        totalCount == Len(results)
    IN [shown |-> TRUE,
        title |-> IF successCount = totalCount THEN "All payments sent!" ELSE "succeeded",
        successCount |-> successCount,
        totalCount |-> totalCount,
        results |-> results,
        items |-> resultItems(results),
        retryHint |-> failedCount > 0,
        retryNames |-> <<>>]

(* main.js:54-63 applied to #previewSplitBtn, with the text and the onclick reset *)
ResetPreviewBtn == [text |-> "Preview Split", onclick |-> NoOnclick, disabled |-> FALSE]

(* main.js:526-552  executeSplitHandler after executeSplit has settled:    *)
(* the results are rendered and refreshBalance is awaited, or the catch    *)
(* block resets the button                                                 *)
ExecuteSplitHandlerResume(r, run) ==
    /\ IF run.st = "returned"
       THEN /\ splitResults' = renderSplitResults(run.results)
            /\ renderedRun' = run.participants
            /\ handlers' = [handlers EXCEPT ![r] = "refreshBalance"]
            /\ UNCHANGED previewBtn
       ELSE /\ previewBtn' = ResetPreviewBtn
            /\ handlers' = [handlers EXCEPT ![r] = "none"]
            /\ UNCHANGED <<splitResults, renderedRun>>
    /\ UNCHANGED <<publicKey, screen, connect, previews, sends, sendBtnDisabled>>

(* The step of run r leaves it as `run`, the other runs as in rs *)
Settle(r, rs, run) ==
    /\ IF handlers[r] = "executeSplit" /\ Ended(run)
       THEN /\ runs' = [rs EXCEPT ![r] = IdleRun]
            /\ ExecuteSplitHandlerResume(r, run)
       ELSE /\ runs' = [rs EXCEPT ![r] = run]
            /\ UNCHANGED pageVars
    /\ UNCHANGED <<call, history>>

(* Variant: the account loaded once and kept across iterations *)
sourceAccountCached(run) ==
    IF run.currentIndex = 1 THEN seqNum[run.publicKey] ELSE run.sourceSeq

(* split.js:84  sourceAccount: the sequence number loadAccount returns *)
sourceAccount(run) == seqNum[run.publicKey]

(* split.js:84-85 *)
LoadAccountResolve(r) ==
    /\ runs[r].st = "loadAccount"
    /\ Settle(r, runs,
            Called([Settled(runs[r], "loadAccount", "ok") EXCEPT
                        !.sourceSeq = sourceAccount(runs[r]),
                        !.otherTx = FALSE,
                        !.st = "fetchBaseFee"], "fetchBaseFee"))
    /\ UNCHANGED ledgerVars

LoadAccountReject(r) ==
    /\ runs[r].st = "loadAccount"
    /\ \E e \in RejectValues :
          Settle(r, runs, Fail(runs[r], "loadAccount", "NotFound", e))
    /\ UNCHANGED ledgerVars

(* split.js:85-114 *)
FetchBaseFeeResolve(r) ==
    /\ runs[r].st = "fetchBaseFee"
    /\ \E fee \in 1..MaxFee :
          LET run == Settled(runs[r], "fetchBaseFee", "ok") IN
          Settle(r, runs,
              IF BuildThrows(run) THEN Fail(run, "build", "InvalidInput", BuildError)
              ELSE Called([run EXCEPT !.tx = BuildTransaction(run, fee),
                                      !.st = "sign"], "sign"))
    /\ UNCHANGED ledgerVars

FetchBaseFeeReject(r) ==
    /\ runs[r].st = "fetchBaseFee"
    /\ \E e \in RejectValues :
          Settle(r, runs, Fail(runs[r], "fetchBaseFee", "Network", e))
    /\ UNCHANGED ledgerVars

(* split.js:110-122 *)
SignResolve(r) ==
    /\ runs[r].st = "sign"
    /\ Settle(r, runs,
            Called([Settled(runs[r], "sign", "ok") EXCEPT !.st = "submit"], "submit"))
    /\ UNCHANGED ledgerVars

SignReject(r) ==
    /\ runs[r].st = "sign"
    /\ \E cause \in {"UserDeclined", "SigningError"}, e \in RejectValues :
          /\ cause = "UserDeclined" => includes(e, "User declined")
          /\ Settle(r, runs, Fail(runs[r], "sign", cause, e))
    /\ UNCHANGED ledgerVars

(* split.js:122-133 *)
SubmitResolve(r) ==
    LET run == runs[r]
        k == run.publicKey
    IN /\ run.st = "submit"
       /\ SubmitVerdict(run.tx, k) = "ok"
       /\ seqNum' = [seqNum EXCEPT ![k] = run.tx.seq]
       /\ balance' = [balance EXCEPT ![k] = @ - (run.tx.amount + run.tx.fee)]
       /\ Settle(r, MarkOthers(runs, r, k),
                 OnSubmitted(Settled(run, "submit", "ok"), run.tx.seq))
       /\ UNCHANGED otherTxs

SubmitReject(r) ==
    LET run == runs[r]
        verdict == SubmitVerdict(run.tx, run.publicKey)
    IN /\ run.st = "submit"
       /\ \E e \in RejectValues :
             Settle(r, runs,
                 Fail(run, "submit", IF verdict = "ok" THEN "Rejected" ELSE verdict, e))
       /\ UNCHANGED ledgerVars

-----------------------------------------------------------------------------
(* Environment *)

HasTx(run) == run.st \in {"sign", "submit"}

(* Time passes while a built transfer waits for the wallet or the network *)
Tick ==
    /\ \E r \in RunIds : HasTx(runs[r]) /\ ~Expired(runs[r].tx)
    /\ runs' = [r \in RunIds |->
            IF HasTx(runs[r]) /\ ~Expired(runs[r].tx)
            THEN [runs[r] EXCEPT !.tx.age = @ + TickSeconds] ELSE runs[r]]
    /\ UNCHANGED <<call, history, ledgerVars, pageVars>>

(* Another transaction of the payer, submitted from elsewhere, is applied *)
OtherPayerTransaction(k) ==
    /\ otherTxs < MaxOtherTxs
    /\ \E r \in RunIds : runs[r].st \notin {"idle", "returned", "threw"}
    /\ otherTxs' = otherTxs + 1
    /\ seqNum' = [seqNum EXCEPT ![k] = @ + 1]
    /\ runs' = MarkOthers(runs, 0, k)
    /\ UNCHANGED <<call, history, balance, pageVars>>

-----------------------------------------------------------------------------
(* split.js: the split calculator and the participant validator.  Amounts  *)
(* are integers in units of 10^-7 XLM; a text input is empty or a number.  *)

NoCall == [fn |-> "none", args |-> <<>>, out |-> <<>>]

EmptyInput == [kind |-> "empty", v |-> 0]

(* The text of a number, as read from an input field *)
Num(v) == [kind |-> "num", v |-> v]

(* A number *)
Number(v) == [kind |-> "number", v |-> v]

(* !x: true of a missing argument, the empty string and the number 0, not *)
(* of the text of a number, "0" included                                  *)
Falsy(input) == input.kind = "empty" \/ (input.kind = "number" /\ input.v = 0)

parseFloat(input) == input.v

(* a / b rounded to the nearest integer, halves away from zero *)
RoundDiv(a, b) ==
    IF a >= 0 THEN (2 * a + b) \div (2 * b) ELSE -((2 * (-a) + b) \div (2 * b))

(* x.toFixed(2), as a number of units: the nearest multiple of 10^5 *)
toFixed2(x) == RoundDiv(x, 100000) * 100000

(* split.js:16-29 *)
calculateSplit(totalAmount, numParticipants) ==
    IF Falsy(totalAmount) \/ Falsy(numParticipants) \/ numParticipants.v <= 0
    THEN [threw |-> TRUE, total |-> 0, perPerson |-> 0, numParticipants |-> 0]
    ELSE LET total == parseFloat(totalAmount)
             perPerson == RoundDiv(total, numParticipants.v)
         IN [threw |-> FALSE, total |-> toFixed2(total), perPerson |-> toFixed2(perPerson),
             numParticipants |-> numParticipants.v]

(* main.js:502  the field of the plan that is handed to executeSplitHandler *)
amountForExecutor(splitData) == splitData.perPerson

(* String.prototype.trim on the sample strings *)
trim(address) ==
    CASE address = "   " -> ""
      [] address = " " \o GA \o " " -> GA
      [] OTHER -> address

startsWithG(address) == address \in {GA, GB, GBADSUM, GSHORT}

(* StrKey.decodeEd25519PublicKey returns instead of throwing *)
decodes(address) == address \in {GA, GB}

(* Variant: an address of the right length and prefix is accepted undecoded *)
AddressErrorNoDecode(trimmed) ==
    IF trimmed = "" THEN "Empty address"
    ELSE IF Len(trimmed) # 56 THEN "Must be 56 characters"
    ELSE IF ~startsWithG(trimmed) THEN "Must start with G"
    ELSE ""

(* Variant: the prefix tested before the length *)
AddressErrorPrefixFirst(trimmed) ==
    IF trimmed = "" THEN "Empty address"
    ELSE IF ~startsWithG(trimmed) THEN "Must start with G"
    ELSE IF Len(trimmed) # 56 THEN "Must be 56 characters"
    ELSE IF ~decodes(trimmed) THEN "Invalid Stellar address"
    ELSE ""

(* split.js:41-62  the reason an address is rejected with, "" when accepted *)
AddressError(trimmed) ==
    IF trimmed = "" THEN "Empty address"
    ELSE IF Len(trimmed) # 56 THEN "Must be 56 characters"
    ELSE IF ~startsWithG(trimmed) THEN "Must start with G"
    ELSE IF ~decodes(trimmed) THEN "Invalid Stellar address"
    ELSE ""

RECURSIVE validateFrom(_, _, _)
validateFrom(addresses, i, acc) ==
    IF i > Len(addresses) THEN acc
    ELSE LET trimmed == trim(addresses[i])
             error == AddressError(trimmed)
         IN validateFrom(addresses, i + 1,
                IF error = "" THEN [acc EXCEPT !.valid = Append(@, trimmed)]
                ELSE [acc EXCEPT !.errors =
                          Append(@, [index |-> i - 1, address |-> trimmed, error |-> error])])

(* Variant: accepted addresses collected newest first *)
validateParticipantsNewestFirst(addresses) ==
    LET r == validateFrom(addresses, 1, [valid |-> <<>>, errors |-> <<>>])
    IN [r EXCEPT !.valid = [i \in 1..Len(r.valid) |-> r.valid[Len(r.valid) + 1 - i]]]

(* Variant: an address already accepted is not accepted again *)
validateParticipantsDistinct(addresses) ==
    LET r == validateFrom(addresses, 1, [valid |-> <<>>, errors |-> <<>>])
    IN [r EXCEPT !.valid = SelectSeq([i \in 1..Len(r.valid) |->
                                 IF \E h \in 1..(i - 1) : r.valid[h] = r.valid[i]
                                 THEN "" ELSE r.valid[i]],
                             LAMBDA a : a # "")]

(* split.js:34-66 *)
validateParticipants(addresses) ==
    validateFrom(addresses, 1, [valid |-> <<>>, errors |-> <<>>])

(* balance.js:45-50 *)
estimateTotalCost(amount, numPayments) == parseFloat(amount) + BASE_FEE_XLM * numPayments

(* balance.js:46-49 in IEEE-754 double arithmetic, for the amounts of the   *)
(* model and up to 6 payments: whether the double parseFloat(amount) +     *)
(* 0.00001 * numPayments exceeds the double nearest to the exact decimal   *)
(* sum (0.1 + 0.00001 * 2 is 0.10002000000000001; 1 + 0.00001 * 2 is       *)
(* 1.00002)                                                                *)
FloatSumExceeds(amount, numPayments) ==
    \/ parseFloat(amount) = 1000000 /\ numPayments \in {2, 3, 6}
    \/ parseFloat(amount) = 0 /\ numPayments \in {3, 6}
    \/ parseFloat(amount) = 10000 /\ numPayments = 4
    \/ parseFloat(amount) = 500000 /\ numPayments \in {1, 3, 5}

(* balance.js:27-31  checkSufficientBalance(...).sufficient on a loaded     *)
(* account: available >= totalCost on doubles; a difference of a unit or    *)
(* more is decided as on the exact values, equality by the sum's rounding   *)
sufficient(available, amount, numPayments) ==
    LET totalCost == estimateTotalCost(amount, numPayments)
    IN \/ available > totalCost
       \/ available = totalCost /\ ~FloatSumExceeds(amount, numPayments)

(* balance.js:20  what server.loadAccount settles with: the account with   *)
(* its native balance, or a rejection                                      *)
LoadedAccount(b) == [threw |-> FALSE, balance |-> b]

FailedQuery == [threw |-> TRUE, balance |-> 0]

(* balance.js:17-40  the object returned, or the error thrown again *)
checkSufficientBalance(account, amount, numPayments) ==
    IF account.threw
    THEN [threw |-> TRUE, sufficient |-> FALSE, available |-> 0, required |-> 0, shortfall |-> 0]
    ELSE LET available == account.balance
             totalCost == estimateTotalCost(amount, numPayments)
         IN [threw |-> FALSE,
             sufficient |-> sufficient(available, amount, numPayments),
             available |-> toFixed2(available),
             required |-> toFixed2(totalCost),
             shortfall |-> IF available < totalCost THEN toFixed2(totalCost - available) ELSE 0]

(* Variant: a failed query stops the split *)
validateBalanceForSplitFailClosed(account, totalAmount, numParticipants) ==
    LET check == checkSufficientBalance(account, totalAmount, numParticipants)
    IN [threw |-> FALSE, value |-> ~check.threw /\ check.sufficient,
        warning |-> ~check.threw /\ ~check.sufficient]

(* balance.js:151-166  the value returned and whether the warning is shown *)
validateBalanceForSplit(account, totalAmount, numParticipants) ==
    LET check == checkSufficientBalance(account, totalAmount, numParticipants)
    IN IF check.threw THEN [threw |-> FALSE, value |-> TRUE, warning |-> FALSE]
       ELSE [threw |-> FALSE, value |-> check.sufficient, warning |-> ~check.sufficient]

(* balance.js:130-145 *)
validateBalanceForPayment(account, amount) ==
    LET check == checkSufficientBalance(account, amount, 1)
    IN IF check.threw THEN [threw |-> FALSE, value |-> TRUE, warning |-> FALSE]
       ELSE [threw |-> FALSE, value |-> check.sufficient, warning |-> ~check.sufficient]

-----------------------------------------------------------------------------
(* history.js: the polling timer, the fetches and the view.  A timer is    *)
(* its id and the identity its callback polls for; a fetch in flight is    *)
(* the identity asked for and the caller that renders its answer; several  *)
(* fetches of one identity and caller are kept as one.                     *)

MaxTimers == 2

TimerIds == 1..MaxTimers

(* history.js:11  let pollingInterval = null; the page as loaded *)
NoHistory == [pollingInterval |-> 0, timers |-> {}, fetches |-> {}, view |-> ""]

(* setInterval returns an id that no live timer has *)
FreshTimer(h) ==
    CHOOSE id \in TimerIds :
        /\ \A t \in h.timers : t.id # id
        /\ \A other \in TimerIds : (\A t \in h.timers : t.id # other) => id <= other

(* Variant: the polling stopped without its interval being cleared *)
stopHistoryPollingForgets(h) == [h EXCEPT !.pollingInterval = 0]

(* history.js:263-268 *)
stopHistoryPolling(h) ==
    IF h.pollingInterval # 0
    THEN [h EXCEPT !.timers = {t \in @ : t.id # h.pollingInterval}, !.pollingInterval = 0]
    ELSE h

(* history.js:273-275  loadAndRenderHistory up to its await *)
loadAndRenderHistory(h, key) ==
    [h EXCEPT !.fetches = @ \cup {[key |-> key, caller |-> "loadAndRenderHistory"]}]

(* history.js:247-258 *)
startHistoryPolling(h, key) ==
    LET polled == loadAndRenderHistory(stopHistoryPolling(h), key)
        id == FreshTimer(polled)
    IN [polled EXCEPT !.timers = @ \cup {[id |-> id, key |-> key]}, !.pollingInterval = id]

(* history.js:287-291  initializeHistory up to its await *)
initializeHistory(h, key) ==
    [h EXCEPT !.view = "loading",
              !.fetches = @ \cup {[key |-> key, caller |-> "initializeHistory"]}]

(* history.js:302-309 *)
clearHistory(h) == [stopHistoryPolling(h) EXCEPT !.view = ""]

(* main.js:250-254  the history of a page connected as key *)
ConnectedHistory(key) == startHistoryPolling(initializeHistory(NoHistory, key), key)

-----------------------------------------------------------------------------
(* main.js: the page *)

IdlePreview ==
    [st |-> "idle", publicKey |-> NoKey, total |-> EmptyInput, valid |-> <<>>,
     perPerson |-> 0, memo |-> ""]

IdleSend == [st |-> "idle", publicKey |-> NoKey, amount |-> 0, source |-> NoKey, tx |-> NoTx]

NoResults ==
    [shown |-> FALSE, title |-> "", successCount |-> 0, totalCount |-> 0, results |-> <<>>,
     items |-> <<>>, retryHint |-> FALSE, retryNames |-> <<>>]

FormTotals == {EmptyInput, Num(0), Num(20000000)}
FormAddresses == {GA, GBADSUM}
FormLists == UNION {[1..n -> FormAddresses] : n \in 0..MaxFormLines}
FormMemos == {""}
SendAmounts == {Num(10000000)}
AppBalances == {30000300}

FreeRun(r) == runs[r].st = "idle" /\ handlers[r] = "none"

(* The handler activations that wait on a promise *)
Pending ==
    Cardinality({r \in RunIds : ~FreeRun(r)})
    + Cardinality({p \in PreviewIds : previews[p].st # "idle"})
    + Cardinality({s \in SendIds : sends[s].st # "idle"})
    + (IF connect # "idle" THEN 1 ELSE 0)

FirstFreeRun == CHOOSE r \in RunIds : FreeRun(r) /\ \A q \in RunIds : FreeRun(q) => r <= q

FirstFreePreview ==
    CHOOSE p \in PreviewIds :
        previews[p].st = "idle" /\ \A q \in PreviewIds : previews[q].st = "idle" => p <= q

FirstFreeSend ==
    CHOOSE s \in SendIds : sends[s].st = "idle" /\ \A q \in SendIds : sends[q].st = "idle" => s <= q

(* main.js:448-494  the click listener of #previewSplitBtn passes its checks *)
PreviewPasses(total, addresses) ==
    /\ publicKey # NoKey
    /\ ~(Falsy(total) \/ parseFloat(total) <= 0)
    /\ Len(addresses) # 0
    /\ validateParticipants(addresses).errors = <<>>
    /\ ~calculateSplit(total, Number(Len(validateParticipants(addresses).valid))).threw

(* main.js:448-494 and 502, 513-526.  One click runs the listener added at *)
(* load (the preview handler, up to its await) and then the onclick        *)
(* property, when a preview has set it (executeSplitHandler, up to the     *)
(* first await of executeSplit).                                           *)
ClickPreviewWith(total, addresses, memo) ==
    LET valid == validateParticipants(addresses).valid
        splitData == calculateSplit(total, Number(Len(valid)))
        previewStarts == PreviewPasses(total, addresses)
        runStarts == previewBtn.onclick.set /\ publicKey # NoKey
    IN /\ screen = "action"
       /\ ~previewBtn.disabled
       /\ previewStarts => \E p \in PreviewIds : previews[p].st = "idle"
       /\ runStarts => \E r \in RunIds : FreeRun(r)
       /\ Pending + (IF previewStarts THEN 1 ELSE 0) + (IF runStarts THEN 1 ELSE 0)
             <= MaxPending
       /\ previews' =
             IF previewStarts
             THEN [previews EXCEPT ![FirstFreePreview] =
                      [st |-> "validateBalance", publicKey |-> publicKey, total |-> total,
                       valid |-> valid, perPerson |-> amountForExecutor(splitData),
                       memo |-> memo]]
             ELSE previews
       /\ IF runStarts
          THEN /\ runs' = [runs EXCEPT ![FirstFreeRun] =
                      executeSplit(publicKey, previewBtn.onclick.participants,
                                   previewBtn.onclick.amountPerPerson,
                                   previewBtn.onclick.memo)]
               /\ handlers' = [handlers EXCEPT ![FirstFreeRun] = "executeSplit"]
               /\ previewBtn' = [previewBtn EXCEPT !.disabled = TRUE]
          ELSE UNCHANGED <<runs, handlers, previewBtn>>
       /\ UNCHANGED <<ledgerVars, publicKey, screen, connect, sends, sendBtnDisabled,
                      splitResults, renderedRun, history>>

(* The click starts a preview or a run: otherwise it alerts and returns *)
ClickHasEffect(total, addresses) ==
    PreviewPasses(total, addresses) \/ (previewBtn.onclick.set /\ publicKey # NoKey)

ClickPreviewSplitBtn ==
    /\ \E total \in FormTotals, addresses \in FormLists, memo \in FormMemos :
          /\ ClickHasEffect(total, addresses)
          /\ ClickPreviewWith(total, addresses, memo)
    /\ UNCHANGED call

(* main.js:491-502  after validateBalanceForSplit; balance.js:151-166 *)
PreviewContinues(p, hasBalance) ==
    /\ previews' = [previews EXCEPT ![p] = IdlePreview]
    /\ previewBtn' =
          IF hasBalance
          THEN [previewBtn EXCEPT
                   !.text = "Execute Split",
                   !.onclick = [set |-> TRUE, participants |-> previews[p].valid,
                                amountPerPerson |-> previews[p].perPerson,
                                memo |-> previews[p].memo]]
          ELSE previewBtn
    /\ UNCHANGED <<call, history, runs, ledgerVars, publicKey, screen, connect, handlers, sends,
                   sendBtnDisabled, splitResults, renderedRun>>

ValidateBalanceForSplitResolve(p) ==
    /\ previews[p].st = "validateBalance"
    /\ PreviewContinues(p, validateBalanceForSplit(LoadedAccount(balance[previews[p].publicKey]),
                                                   previews[p].total,
                                                   Len(previews[p].valid)).value)

(* balance.js:162-165  the query threw: the split may proceed *)
ValidateBalanceForSplitReject(p) ==
    /\ previews[p].st = "validateBalance"
    /\ PreviewContinues(p, validateBalanceForSplit(FailedQuery, previews[p].total,
                                                   Len(previews[p].valid)).value)

(* main.js:532-552  refreshBalance settled, either way the button is reset *)
RefreshBalanceSettles(r) ==
    /\ handlers[r] = "refreshBalance"
    /\ handlers' = [handlers EXCEPT ![r] = "none"]
    /\ previewBtn' = ResetPreviewBtn
    /\ \E resolved \in BOOLEAN :
          history' = IF resolved /\ publicKey # NoKey
                     THEN initializeHistory(history, publicKey) ELSE history
    /\ UNCHANGED <<call, runs, ledgerVars, publicKey, screen, connect, previews, sends,
                   sendBtnDisabled, splitResults, renderedRun>>

(* main.js:558-577  split.js:290-309 *)
ClickClearSplitBtn ==
    /\ screen = "action"
    /\ splitResults' = NoResults
    /\ renderedRun' = <<>>
    /\ previewBtn' = ResetPreviewBtn
    /\ UNCHANGED <<call, history, runs, ledgerVars, publicKey, screen, connect, previews, handlers, sends,
                   sendBtnDisabled>>

(* main.js:271-311 *)
ClickDisconnectBtn ==
    /\ screen = "action"
    /\ publicKey' = NoKey
    /\ splitResults' = NoResults
    /\ renderedRun' = <<>>
    /\ screen' = "hero"
    /\ history' = clearHistory(stopHistoryPolling(history))
    /\ UNCHANGED <<call, runs, ledgerVars, connect, previewBtn, previews, handlers, sends,
                   sendBtnDisabled>>

(* main.js:180-187 *)
ClickConnectBtn ==
    /\ screen = "hero"
    /\ connect = "idle"
    /\ Pending < MaxPending
    /\ connect' = "getNetwork"
    /\ UNCHANGED <<call, history, runs, ledgerVars, publicKey, screen, previewBtn, previews, handlers, sends,
                   sendBtnDisabled, splitResults, renderedRun>>

(* main.js:187-211 *)
GetNetworkResolve ==
    /\ connect = "getNetwork"
    /\ \E isTestnet \in BOOLEAN : connect' = IF isTestnet THEN "requestAccess" ELSE "idle"
    /\ UNCHANGED <<call, history, runs, ledgerVars, publicKey, screen, previewBtn, previews, handlers, sends,
                   sendBtnDisabled, splitResults, renderedRun>>

(* main.js:211-232 *)
RequestAccessResolve ==
    /\ connect = "requestAccess"
    /\ \E k \in Keys : publicKey' = k
    /\ connect' = "loadAccount"
    /\ UNCHANGED <<call, history, runs, ledgerVars, screen, previewBtn, previews, handlers, sends,
                   sendBtnDisabled, splitResults, renderedRun>>

(* main.js:232-257 *)
ConnectLoadAccountResolve ==
    /\ connect = "loadAccount"
    /\ connect' = "idle"
    /\ screen' = "action"
    /\ history' = startHistoryPolling(initializeHistory(history, publicKey), publicKey)
    /\ UNCHANGED <<call, runs, ledgerVars, publicKey, previewBtn, previews, handlers, sends,
                   sendBtnDisabled, splitResults, renderedRun>>

(* main.js:259-265  any await of the connect handler rejected *)
ConnectReject ==
    /\ connect # "idle"
    /\ connect' = "idle"
    /\ UNCHANGED <<call, history, runs, ledgerVars, publicKey, screen, previewBtn, previews, handlers, sends,
                   sendBtnDisabled, splitResults, renderedRun>>

(* main.js:316-338  the click, up to the pending validateBalanceForPayment *)
ClickSendBtn ==
    /\ screen = "action"
    /\ ~sendBtnDisabled
    /\ publicKey # NoKey
    /\ \E s \in SendIds : sends[s].st = "idle"
    /\ Pending < MaxPending
    /\ \E amount \in SendAmounts :
          sends' = [sends EXCEPT ![FirstFreeSend] =
              [IdleSend EXCEPT !.st = "validateBalance", !.publicKey = publicKey,
                               !.amount = amount]]
    /\ UNCHANGED <<call, history, runs, ledgerVars, publicKey, screen, connect, previewBtn, previews, handlers,
                   sendBtnDisabled, splitResults, renderedRun>>

(* main.js:338-348  after validateBalanceForPayment; balance.js:130-145 *)
SendContinues(s, hasBalance) ==
    /\ IF hasBalance
       THEN /\ sendBtnDisabled' = TRUE
            /\ sends' = [sends EXCEPT ![s].st = "loadAccount", ![s].source = publicKey]
       ELSE /\ sends' = [sends EXCEPT ![s] = IdleSend]
            /\ UNCHANGED sendBtnDisabled
    /\ UNCHANGED <<call, history, runs, ledgerVars, publicKey, screen, connect, previewBtn, previews, handlers,
                   splitResults, renderedRun>>

ValidateBalanceForPaymentResolve(s) ==
    /\ sends[s].st = "validateBalance"
    /\ SendContinues(s, validateBalanceForPayment(LoadedAccount(balance[sends[s].publicKey]),
                                                  sends[s].amount).value)

(* balance.js:141-144  the query threw: the payment may proceed *)
ValidateBalanceForPaymentReject(s) ==
    /\ sends[s].st = "validateBalance"
    /\ SendContinues(s, validateBalanceForPayment(FailedQuery, sends[s].amount).value)

(* main.js:348-349  loadAccount(publicKey) resolves for a known account *)
SendLoadAccountResolve(s) ==
    /\ sends[s].st = "loadAccount"
    /\ sends[s].source # NoKey
    /\ sends' = [sends EXCEPT ![s].st = "fetchBaseFee",
                              ![s].tx = [NoTx EXCEPT !.seq = seqNum[sends[s].source] + 1]]
    /\ UNCHANGED <<call, history, runs, ledgerVars, publicKey, screen, connect, previewBtn, previews, handlers,
                   sendBtnDisabled, splitResults, renderedRun>>

(* main.js:349-388  the transfer is built and handed to the wallet *)
SendFetchBaseFeeResolve(s) ==
    /\ sends[s].st = "fetchBaseFee"
    /\ \E fee \in 1..MaxFee :
          sends' = [sends EXCEPT ![s].st = "sign",
                                 ![s].tx = [@ EXCEPT !.amount = parseFloat(sends[s].amount),
                                                     !.fee = fee]]
    /\ UNCHANGED <<call, history, runs, ledgerVars, publicKey, screen, connect, previewBtn, previews, handlers,
                   sendBtnDisabled, splitResults, renderedRun>>

(* main.js:381-402 *)
SendSignResolve(s) ==
    /\ sends[s].st = "sign"
    /\ sends' = [sends EXCEPT ![s].st = "submit"]
    /\ UNCHANGED <<call, history, runs, ledgerVars, publicKey, screen, connect, previewBtn, previews, handlers,
                   sendBtnDisabled, splitResults, renderedRun>>

(* main.js:402-412  the payment is applied; the balance is loaded again *)
SendSubmitResolve(s) ==
    LET tx == sends[s].tx
        k == sends[s].source
    IN /\ sends[s].st = "submit"
       /\ SubmitVerdict(tx, k) = "ok"
       /\ seqNum' = [seqNum EXCEPT ![k] = tx.seq]
       /\ balance' = [balance EXCEPT ![k] = @ - (tx.amount + tx.fee)]
       /\ runs' = MarkOthers(runs, 0, k)
       /\ sends' = [sends EXCEPT ![s].st = "refresh"]
       /\ UNCHANGED <<call, history, otherTxs, publicKey, screen, connect, previewBtn, previews, handlers,
                   sendBtnDisabled, splitResults, renderedRun>>

(* main.js:412-442  the last await resolved: the finally block *)
SendRefreshResolve(s) ==
    /\ sends[s].st = "refresh"
    /\ sends' = [sends EXCEPT ![s] = IdleSend]
    /\ sendBtnDisabled' = FALSE
    /\ history' = IF publicKey # NoKey THEN initializeHistory(history, publicKey) ELSE history
    /\ UNCHANGED <<call, runs, ledgerVars, publicKey, screen, connect, previewBtn, previews, handlers,
                   splitResults, renderedRun>>

(* main.js:436-442  any await inside the try rejected: catch and finally *)
SendReject(s) ==
    /\ sends[s].st \in {"loadAccount", "fetchBaseFee", "sign", "submit", "refresh"}
    /\ sends' = [sends EXCEPT ![s] = IdleSend]
    /\ sendBtnDisabled' = FALSE
    /\ UNCHANGED <<call, history, runs, ledgerVars, publicKey, screen, connect, previewBtn, previews, handlers,
                   splitResults, renderedRun>>

-----------------------------------------------------------------------------
(* Specification of the executor: one call of executeSplit *)

(* The page as loaded: main.js:39, 582 *)
PageInit ==
    /\ call = NoCall
    /\ history = NoHistory
    /\ publicKey = NoKey
    /\ screen = "hero"
    /\ connect = "idle"
    /\ previewBtn = ResetPreviewBtn
    /\ previews = [p \in PreviewIds |-> IdlePreview]
    /\ handlers = [r \in RunIds |-> "none"]
    /\ sends = [s \in SendIds |-> IdleSend]
    /\ sendBtnDisabled = FALSE
    /\ splitResults = NoResults
    /\ renderedRun = <<>>

Init ==
    /\ PageInit
    /\ seqNum = [k \in Keys |-> 0]
    /\ balance \in [Keys -> 0..MaxBalance]
    /\ otherTxs = 0
    /\ \E k \in Keys, ps \in ParticipantLists, a \in 0..MaxAmount, m \in Memos :
          runs = [r \in RunIds |-> IF r = 1 THEN executeSplit(k, ps, a, m) ELSE IdleRun]

RunStep(r) ==
    \/ LoadAccountResolve(r)
    \/ LoadAccountReject(r)
    \/ FetchBaseFeeResolve(r)
    \/ FetchBaseFeeReject(r)
    \/ SignResolve(r)
    \/ SignReject(r)
    \/ SubmitResolve(r)
    \/ SubmitReject(r)

Next ==
    \/ \E r \in RunIds : RunStep(r)
    \/ Tick
    \/ \E k \in Keys : OtherPayerTransaction(k)

Spec == Init /\ [][Next]_vars

(* The executor when every pending account query, fee query, signature     *)
(* request and submission eventually resolves or rejects                   *)
SpecFair == Spec /\ \A r \in RunIds : WF_vars(RunStep(r))

-----------------------------------------------------------------------------
(* Specification of the page: the handlers of main.js and the runs they    *)
(* start, from the page as loaded                                          *)

InitApp ==
    /\ PageInit
    /\ seqNum = [k \in Keys |-> 0]
    /\ balance \in [Keys -> AppBalances]
    /\ otherTxs = 0
    /\ runs = [r \in RunIds |-> IdleRun]

NextApp ==
    \/ ClickConnectBtn
    \/ GetNetworkResolve
    \/ RequestAccessResolve
    \/ ConnectLoadAccountResolve
    \/ ConnectReject
    \/ ClickDisconnectBtn
    \/ ClickPreviewSplitBtn
    \/ \E p \in PreviewIds : ValidateBalanceForSplitResolve(p)
    \/ \E p \in PreviewIds : ValidateBalanceForSplitReject(p)
    \/ ClickClearSplitBtn
    \/ \E r \in RunIds : RunStep(r)
    \/ \E r \in RunIds : RefreshBalanceSettles(r)
    \/ ClickSendBtn
    \/ \E s \in SendIds : ValidateBalanceForPaymentResolve(s)
    \/ \E s \in SendIds : ValidateBalanceForPaymentReject(s)
    \/ \E s \in SendIds : SendLoadAccountResolve(s)
    \/ \E s \in SendIds : SendFetchBaseFeeResolve(s)
    \/ \E s \in SendIds : SendSignResolve(s)
    \/ \E s \in SendIds : SendSubmitResolve(s)
    \/ \E s \in SendIds : SendRefreshResolve(s)
    \/ \E s \in SendIds : SendReject(s)

SpecApp == InitApp /\ [][NextApp]_vars

-----------------------------------------------------------------------------
(* Specification of one executeSplitHandler activation: the page is        *)
(* connected, a preview has set the button's onclick, and the click has    *)
(* called executeSplit (main.js:513-526)                                   *)

InitHandler ==
    /\ call = NoCall
    /\ seqNum = [k \in Keys |-> 0]
    /\ balance \in [Keys -> 0..MaxBalance]
    /\ otherTxs = 0
    /\ screen = "action"
    /\ connect = "idle"
    /\ previews = [p \in PreviewIds |-> IdlePreview]
    /\ handlers = [r \in RunIds |-> IF r = 1 THEN "executeSplit" ELSE "none"]
    /\ sends = [s \in SendIds |-> IdleSend]
    /\ sendBtnDisabled = FALSE
    /\ splitResults = NoResults
    /\ renderedRun = <<>>
    /\ \E k \in Keys, ps \in ParticipantLists, a \in 0..MaxAmount, m \in Memos :
          /\ publicKey = k
          /\ history = ConnectedHistory(k)
          /\ previewBtn = [text |-> "Execute Split",
                           onclick |-> [set |-> TRUE, participants |-> ps,
                                        amountPerPerson |-> a, memo |-> m],
                           disabled |-> TRUE]
          /\ runs = [r \in RunIds |-> IF r = 1 THEN executeSplit(k, ps, a, m) ELSE IdleRun]

NextHandler ==
    \/ \E r \in RunIds : RunStep(r)
    \/ \E r \in RunIds : RefreshBalanceSettles(r)
    \/ Tick
    \/ \E k \in Keys : OtherPayerTransaction(k)

SpecHandler == InitHandler /\ [][NextHandler]_vars

-----------------------------------------------------------------------------
(* Specification of the functions called by themselves: split.js           *)
(* calculateSplit and validateParticipants, balance.js                     *)
(* checkSufficientBalance and the two pre-checks                           *)

TotalSamples == {-10000000, 0, 1, 2, 5000000, 10000000, 100000000}

CalcTotals == {EmptyInput} \cup {Num(t) : t \in TotalSamples} \cup {Number(t) : t \in TotalSamples}

CalcCounts == {EmptyInput} \cup {Number(c) : c \in -1..MaxCount}

AddressSamples == {"", "   ", GA, " " \o GA \o " ", GB, GBADSUM, XKEY, GSHORT, XSHORT}

AddressLists == UNION {[1..n -> AddressSamples] : n \in 0..MaxAddresses}

CallCalculateSplit ==
    /\ call = NoCall
    /\ \E totalAmount \in CalcTotals, numParticipants \in CalcCounts :
          call' = [fn |-> "calculateSplit", args |-> <<totalAmount, numParticipants>>,
                   out |-> calculateSplit(totalAmount, numParticipants)]
    /\ UNCHANGED <<runs, ledgerVars, pageVars, history>>

CallValidateParticipants ==
    /\ call = NoCall
    /\ \E addresses \in AddressLists :
          call' = [fn |-> "validateParticipants", args |-> <<addresses>>,
                   out |-> validateParticipants(addresses)]
    /\ UNCHANGED <<runs, ledgerVars, pageVars, history>>

BalanceSamples == {0, 1000200, 40000200, 40000299, 40000300, 100000000}

Accounts == {FailedQuery} \cup {LoadedAccount(b) : b \in BalanceSamples}

CheckAmounts == {Num(1000000), Num(10000000), Num(40000000)}

CallCheckSufficientBalance ==
    /\ call = NoCall
    /\ \E account \in Accounts, amount \in CheckAmounts, numPayments \in 1..MaxCount :
          call' = [fn |-> "checkSufficientBalance", args |-> <<account, amount, numPayments>>,
                   out |-> checkSufficientBalance(account, amount, numPayments)]
    /\ UNCHANGED <<runs, ledgerVars, pageVars, history>>

CallValidateBalanceForSplit ==
    /\ call = NoCall
    /\ \E account \in Accounts, totalAmount \in CheckAmounts, numParticipants \in 1..MaxCount :
          call' = [fn |-> "validateBalanceForSplit",
                   args |-> <<account, totalAmount, numParticipants>>,
                   out |-> validateBalanceForSplit(account, totalAmount, numParticipants)]
    /\ UNCHANGED <<runs, ledgerVars, pageVars, history>>

CallValidateBalanceForPayment ==
    /\ call = NoCall
    /\ \E account \in Accounts, amount \in CheckAmounts :
          call' = [fn |-> "validateBalanceForPayment", args |-> <<account, amount, 1>>,
                   out |-> validateBalanceForPayment(account, amount)]
    /\ UNCHANGED <<runs, ledgerVars, pageVars, history>>

InitCalls ==
    /\ PageInit
    /\ seqNum = [k \in Keys |-> 0]
    /\ balance = [k \in Keys |-> 0]
    /\ otherTxs = 0
    /\ runs = [r \in RunIds |-> IdleRun]

NextCalls ==
    \/ CallCalculateSplit
    \/ CallValidateParticipants
    \/ CallCheckSufficientBalance
    \/ CallValidateBalanceForSplit
    \/ CallValidateBalanceForPayment

SpecCalls == InitCalls /\ [][NextCalls]_vars

-----------------------------------------------------------------------------
(* Specification of a split from the entered list to the run: the list is  *)
(* validated (main.js:476), and when it has no error its valid list is     *)
(* handed to executeSplit (main.js:502, 526)                               *)

PlanAmount == 1

ExecuteValid ==
    /\ call.fn = "validateParticipants"
    /\ call.out.errors = <<>>
    /\ call.args[1] # <<>>
    /\ \A r \in RunIds : runs[r].st = "idle"
    /\ \E k \in Keys :
          runs' = [runs EXCEPT ![1] = executeSplit(k, call.out.valid, PlanAmount, "")]
    /\ UNCHANGED <<call, history, ledgerVars, pageVars>>

InitPlan ==
    /\ PageInit
    /\ seqNum = [k \in Keys |-> 0]
    /\ balance = [k \in Keys |-> (MaxAddresses + 1) * (PlanAmount + MaxFee)]
    /\ otherTxs = 0
    /\ runs = [r \in RunIds |-> IdleRun]

NextPlan ==
    \/ CallValidateParticipants
    \/ ExecuteValid
    \/ \E r \in RunIds : RunStep(r)

SpecPlan == InitPlan /\ [][NextPlan]_vars

-----------------------------------------------------------------------------
(* Specification of the split form: the page is connected, and every click *)
(* on #previewSplitBtn is recorded with the values of #split-total,        *)
(* #split-recipients and #split-memo it read (main.js:454-456)             *)

PreviewTotals == {EmptyInput, Num(10000), Num(500000)}

PreviewBalances == {1000300}

(* The user clicks when no handler is waiting *)
ClickPreviewRecorded ==
    \E total \in PreviewTotals, addresses \in FormLists, memo \in FormMemos :
        /\ Pending = 0
        /\ ClickPreviewWith(total, addresses, memo)
        /\ call' = [fn |-> "previewSplitBtn.click", args |-> <<total, addresses, memo>>,
                    out |-> <<>>]

InitPreview ==
    /\ call = NoCall
    /\ \E k \in Keys : publicKey = k /\ history = ConnectedHistory(k)
    /\ screen = "action"
    /\ connect = "idle"
    /\ previewBtn = ResetPreviewBtn
    /\ previews = [p \in PreviewIds |-> IdlePreview]
    /\ handlers = [r \in RunIds |-> "none"]
    /\ sends = [s \in SendIds |-> IdleSend]
    /\ sendBtnDisabled = FALSE
    /\ splitResults = NoResults
    /\ renderedRun = <<>>
    /\ seqNum = [k \in Keys |-> 0]
    /\ balance \in [Keys -> PreviewBalances]
    /\ otherTxs = 0
    /\ runs = [r \in RunIds |-> IdleRun]

NextPreview ==
    \/ ClickDisconnectBtn
    \/ ClickConnectBtn
    \/ GetNetworkResolve
    \/ RequestAccessResolve
    \/ ConnectLoadAccountResolve
    \/ ConnectReject
    \/ ClickPreviewRecorded
    \/ \E p \in PreviewIds : ValidateBalanceForSplitResolve(p)
    \/ \E p \in PreviewIds : ValidateBalanceForSplitReject(p)
    \/ ClickClearSplitBtn
    \/ \E r \in RunIds : RunStep(r)
    \/ \E r \in RunIds : RefreshBalanceSettles(r)

SpecPreview == InitPreview /\ [][NextPreview]_vars

-----------------------------------------------------------------------------
(* Specification of the history module: the connect and disconnect         *)
(* handlers, the exported functions called by themselves in any order, the *)
(* polling timer and the fetches                                           *)

(* history.js:247-258 *)
CallStartHistoryPolling ==
    /\ \E k \in Keys :
          /\ history' = startHistoryPolling(history, k)
          /\ call' = [fn |-> "startHistoryPolling", args |-> <<k>>, out |-> <<>>]
    /\ UNCHANGED <<runs, ledgerVars, pageVars>>

(* history.js:263-268 *)
CallStopHistoryPolling ==
    /\ history' = stopHistoryPolling(history)
    /\ call' = [fn |-> "stopHistoryPolling", args |-> <<>>, out |-> <<>>]
    /\ UNCHANGED <<runs, ledgerVars, pageVars>>

(* history.js:302-309 *)
CallClearHistory ==
    /\ history' = clearHistory(history)
    /\ call' = [fn |-> "clearHistory", args |-> <<>>, out |-> <<>>]
    /\ UNCHANGED <<runs, ledgerVars, pageVars>>

(* history.js:255-257  the interval elapses and its callback runs *)
TimerFires(t) ==
    /\ t \in history.timers
    /\ history' = loadAndRenderHistory(history, t.key)
    /\ UNCHANGED <<call, runs, ledgerVars, pageVars>>

(* history.js:275-276, 291-292  fetchTransactionHistory resolved: the      *)
(* transactions of the identity asked for are rendered                     *)
FetchResolve(f) ==
    /\ f \in history.fetches
    /\ history' = [history EXCEPT !.fetches = @ \ {f}, !.view = f.key]
    /\ UNCHANGED <<call, runs, ledgerVars, pageVars>>

(* history.js:277-281, 293-296  fetchTransactionHistory rejected: only     *)
(* initializeHistory shows the error                                       *)
FetchReject(f) ==
    /\ f \in history.fetches
    /\ history' = [history EXCEPT
                      !.fetches = @ \ {f},
                      !.view = IF f.caller = "initializeHistory" THEN "error" ELSE @]
    /\ UNCHANGED <<call, runs, ledgerVars, pageVars>>

Timers == {[id |-> id, key |-> k] : id \in TimerIds, k \in Keys}

Fetches == {[key |-> k, caller |-> c] : k \in Keys, c \in {"loadAndRenderHistory", "initializeHistory"}}

InitHistory ==
    /\ PageInit
    /\ seqNum = [k \in Keys |-> 0]
    /\ balance = [k \in Keys |-> 0]
    /\ otherTxs = 0
    /\ runs = [r \in RunIds |-> IdleRun]

NextHistory ==
    \/ ClickConnectBtn
    \/ GetNetworkResolve
    \/ RequestAccessResolve
    \/ ConnectLoadAccountResolve
    \/ ConnectReject
    \/ ClickDisconnectBtn
    \/ CallStartHistoryPolling
    \/ CallStopHistoryPolling
    \/ CallClearHistory
    \/ \E t \in Timers : TimerFires(t)
    \/ \E f \in Fetches : FetchResolve(f)
    \/ \E f \in Fetches : FetchReject(f)

SpecHistory == InitHistory /\ [][NextHistory]_vars

-----------------------------------------------------------------------------
(* Specification of the history view across sessions: the page's connect   *)
(* and disconnect handlers with a wallet that may hand out another account *)
(* at each connect, the polling timer and the fetches                      *)

(* main.js:211-222  the accounts requestAccess may answer with *)
WalletKeys == Keys \cup {"GOTHER"}

(* main.js:211-232  requestAccess answers with the account the wallet has  *)
(* selected now                                                            *)
RequestAccessAnyAccount ==
    /\ connect = "requestAccess"
    /\ \E k \in WalletKeys : publicKey' = k
    /\ connect' = "loadAccount"
    /\ UNCHANGED <<call, history, runs, ledgerVars, screen, previewBtn, previews, handlers, sends,
                   sendBtnDisabled, splitResults, renderedRun>>

WalletTimers == {[id |-> id, key |-> k] : id \in TimerIds, k \in WalletKeys}

WalletFetches ==
    {[key |-> k, caller |-> c] : k \in WalletKeys, c \in {"loadAndRenderHistory", "initializeHistory"}}

NextReconnect ==
    \/ ClickConnectBtn
    \/ GetNetworkResolve
    \/ RequestAccessAnyAccount
    \/ ConnectLoadAccountResolve
    \/ ConnectReject
    \/ ClickDisconnectBtn
    \/ \E t \in WalletTimers : TimerFires(t)
    \/ \E f \in WalletFetches : FetchResolve(f)
    \/ \E f \in WalletFetches : FetchReject(f)

SpecReconnect == InitHistory /\ [][NextReconnect]_vars

-----------------------------------------------------------------------------
(* Reading a run's history *)

Has(log, ev) == \E j \in 1..Len(log) : log[j] = ev

Pos(log, ev) == CHOOSE j \in 1..Len(log) : log[j] = ev

Active(run) == run.st \in {"loadAccount", "fetchBaseFee", "sign", "submit"}

Last(s) == s[Len(s)]

Failed(run) == run.fail.step # "none"

AllSuccess(results) == \A j \in 1..Len(results) : results[j].status = "success"

-----------------------------------------------------------------------------
(* C1: halt on first failure.  Once the attempt for participant i has      *)
(* failed, the run has made no call for any later participant and has      *)
(* returned its outcome list.                                              *)
C1_HaltOnFirstFailure ==
    \A r \in RunIds :
        LET run == runs[r] IN
        Failed(run) =>
            /\ \A j \in 1..Len(run.log) : run.log[j][2] <= run.fail.index
            /\ ~Active(run)
            /\ run.st = "returned"

(* C2: the outcome list is a prefix of the participant list, in input      *)
(* order, and only its last entry can be a failure.                        *)
C2_OutcomePrefix ==
    \A r \in RunIds :
        LET run == runs[r] IN
        /\ Len(run.results) <= N(run)
        /\ \A j \in 1..Len(run.results) :
              /\ run.results[j].recipient = run.participants[j]
              /\ run.results[j].status \in {"success", "failed"}
              /\ j < Len(run.results) => run.results[j].status = "success"

C2_Witness ==
    \E r \in RunIds :
        /\ Len(runs[r].results) = 3
        /\ runs[r].results[2].status = "success"
        /\ runs[r].results[3].status = "failed"

(* C3: a started run never ends by throwing; every failure of a            *)
(* collaborator leaves a failed outcome for that participant and the run   *)
(* returns.                                                                *)
C3_NeverThrows ==
    \A r \in RunIds :
        LET run == runs[r] IN
        /\ run.st # "threw"
        /\ Failed(run) =>
              /\ run.st = "returned"
              /\ Len(run.results) = run.fail.index
              /\ Last(run.results).status = "failed"

(* C4: every transfer is built from an account snapshot loaded in its own  *)
(* iteration, after the previous submission returned; unless another       *)
(* transaction of the payer was applied since that load, the transfer      *)
(* carries the next sequence number of the ledger, and no submission is    *)
(* rejected for a bad sequence number.                                     *)
C4_FreshSequence ==
    \A r \in RunIds :
        LET run == runs[r]
            i == run.currentIndex
        IN /\ HasTx(run) =>
                /\ Has(run.log, <<"loadAccount", i, "ok">>)
                /\ i > 1 => Pos(run.log, <<"submit", i - 1, "ok">>)
                                < Pos(run.log, <<"loadAccount", i, "call">>)
                /\ run.tx.seq = run.sourceSeq + 1
                /\ ~run.otherTx => run.tx.seq = seqNum[run.publicKey] + 1
           /\ run.fail.cause = "BadSequence" => run.fail.otherTx

C4_Witness ==
    \E r \in RunIds :
        /\ runs[r].st = "returned"
        /\ Len(runs[r].results) = 3
        /\ AllSuccess(runs[r].results)
        /\ otherTxs = 0

(* C5: a run that returns without a failed step has N success outcomes     *)
(* with pairwise distinct hashes; the submissions were made in input       *)
(* order, each one only after the previous one had returned.               *)
C5_AllSucceed ==
    \A r \in RunIds :
        LET run == runs[r] IN
        (run.st = "returned" /\ ~Failed(run)) =>
            /\ Len(run.results) = N(run)
            /\ AllSuccess(run.results)
            /\ \A i, j \in 1..N(run) : i # j => run.results[i].hash # run.results[j].hash
            /\ \A i \in 1..N(run) :
                  /\ Has(run.log, <<"submit", i, "call">>)
                  /\ Has(run.log, <<"submit", i, "ok">>)
                  /\ i < N(run) => Pos(run.log, <<"submit", i, "ok">>)
                                      < Pos(run.log, <<"submit", i + 1, "call">>)

C5_Witness ==
    \E r \in RunIds :
        /\ runs[r].st = "returned"
        /\ ~Failed(runs[r])
        /\ N(runs[r]) = 3
        /\ runs[r].participants[1] = runs[r].participants[3]

(* The tag of an appended outcome follows the rejection's message alone *)
TagByMessage(tag, e) ==
    /\ tag \in {"Declined by user", "Insufficient balance", "Payment failed"}
    /\ tag = "Declined by user" <=> includes(e, "User declined")
    /\ tag = "Insufficient balance" <=>
          (~includes(e, "User declined") /\ includes(e, "Insufficient balance"))

SignFailureRecorded(run) == run.fail.step = "sign" /\ run.st = "returned"

TimeoutRecorded(run) ==
    run.fail.step = "submit" /\ run.fail.cause = "Timeout" /\ run.st = "returned"

(* C8 as claimed: a transfer submitted after its validity window fails and *)
(* its outcome carries a timeout-class tag that no other submission        *)
(* failure carries.                                                        *)
C8_TimeoutCategory ==
    \A r \in RunIds :
        LET run == runs[r] IN
        TimeoutRecorded(run) =>
            /\ Last(run.results).status = "failed"
            /\ Last(run.results).error
                  \notin {"Declined by user", "Insufficient balance", "Payment failed"}

(* C8 as amended: a transfer submitted after its validity window is never  *)
(* applied to the ledger; the run halts there, and the failed outcome it   *)
(* appends is tagged from the rejection's message like every other         *)
(* failure ("Payment failed" unless the message holds one of the two       *)
(* phrases): there is no timeout-class tag.                                *)
C8_LateSubmissionFails ==
    [][\A r \in RunIds :
          (runs[r].st = "submit" /\ Expired(runs[r].tx) /\ runs'[r].st # "submit") =>
              /\ seqNum' = seqNum
              /\ runs'[r].fail.step = "submit"
              /\ runs'[r].fail.cause = "Timeout"
              /\ \/ /\ runs'[r].st = "threw"
                    /\ runs'[r].results = runs[r].results
                 \/ /\ runs'[r].st = "returned"
                    /\ Len(runs'[r].results) = Len(runs[r].results) + 1
                    /\ Last(runs'[r].results).status = "failed"
                    /\ TagByMessage(Last(runs'[r].results).error, runs'[r].fail.error)]_vars

C8_Witness ==
    \E r \in RunIds :
        /\ TimeoutRecorded(runs[r])
        /\ runs[r].fail.index = 2
        /\ Last(runs[r].results).error = "Payment failed"

(* C9: the signals of a run are, for each attempted participant in order,  *)
(* (i, N, processing) followed by exactly one terminal signal that matches *)
(* the i-th outcome; an ended run has both signals for every attempted     *)
(* participant and none for the others.                                    *)
C9_ProgressPairs ==
    \A r \in RunIds :
        LET run == runs[r]
            a == run.currentIndex
        IN run.st # "idle" =>
            /\ Len(run.signals) = IF Ended(run) THEN 2 * a ELSE 2 * a - 1
            /\ \A i \in 1..a :
                  /\ run.signals[2 * i - 1] = <<i, N(run), "processing">>
                  /\ 2 * i <= Len(run.signals) =>
                        /\ i <= Len(run.results)
                        /\ run.signals[2 * i] = <<i, N(run), run.results[i].status>>

(* C6: no two settlement runs of one payer are in progress at the same     *)
(* time, and no single payment of the payer (Send) is built, submitted or  *)
(* applied while a settlement run of that payer is in progress.            *)
C6_OnePaymentAtATime ==
    [][/\ \A r, q \in RunIds :
             (r # q /\ Active(runs'[r]) /\ Active(runs'[q])) =>
                 runs'[r].publicKey # runs'[q].publicKey
       /\ \A s \in SendIds :
             (sends'[s].st # sends[s].st /\ sends'[s].st \in {"sign", "submit", "refresh"}) =>
                 \A r \in RunIds : Active(runs[r]) => runs[r].publicKey # sends[s].source]_vars

(* C10: the results view shows "All payments sent!" only if the run whose  *)
(* results it shows has a success outcome for every participant of its     *)
(* input list, in input order; a run that stopped early is never shown as  *)
(* fully successful.                                                       *)
C10_FullSuccessOnlyIfAllPaid ==
    (splitResults.shown /\ splitResults.title = "All payments sent!") =>
        /\ Len(splitResults.results) = Len(renderedRun)
        /\ \A i \in 1..Len(renderedRun) :
              /\ splitResults.results[i].status = "success"
              /\ splitResults.results[i].recipient = renderedRun[i]

C10_Witness ==
    /\ splitResults.shown
    /\ splitResults.title = "All payments sent!"
    /\ Len(renderedRun) = 2
    /\ Len(splitResults.results) = 2

(* C11: after a partially successful run the results view lists each       *)
(* outcome, a success as sent with its transaction reference and a failure *)
(* as failed with a reason, marks nobody else as sent, and its retry hint  *)
(* names the unattempted remainder of the run's participant list.          *)
C11_PartialResultsView ==
    LET view == splitResults
        attempted == Len(view.results)
    IN (view.shown /\ 0 < view.successCount /\ view.successCount < Len(renderedRun)) =>
          /\ Len(view.items) = attempted
          /\ attempted <= Len(renderedRun)
          /\ \A i \in 1..attempted :
                /\ view.items[i].address = formatAddressShort(renderedRun[i])
                /\ view.items[i].label = "Sent" <=> view.results[i].status = "success"
                /\ view.items[i].label = "Sent" =>
                      view.items[i].link = view.results[i].hash /\ view.items[i].link # 0
                /\ view.items[i].label # "Sent" =>
                      view.items[i].label = "Failed" /\ view.items[i].reason # ""
          /\ view.title # "All payments sent!"
          /\ view.retryHint
          /\ view.retryNames = SubSeq(renderedRun, attempted + 1, Len(renderedRun))

-----------------------------------------------------------------------------
(* Reading a call of calculateSplit *)

SplitCalled == call.fn = "calculateSplit"

PositiveTotal == call.args[1].kind # "empty" /\ call.args[1].v > 0

PositiveCount == call.args[2].kind = "number" /\ call.args[2].v > 0

Abs(x) == IF x < 0 THEN -x ELSE x

(* C12: for a positive total T and a positive count C, in minimum units,   *)
(* the per-participant amount of the plan times C differs from T by at     *)
(* most one unit.                                                          *)
C12_ResidueWithinOneUnit ==
    (SplitCalled /\ PositiveTotal /\ PositiveCount) =>
        /\ ~call.out.threw
        /\ Abs(call.out.perPerson * call.args[2].v - call.args[1].v) <= 1

(* C13: calculateSplit fails, returning no plan, exactly when the count is *)
(* 0 or negative, the total is zero or negative, or an argument is         *)
(* missing; it returns a plan only for a positive total and count.         *)
C13_InvalidInputRejected ==
    SplitCalled => (call.out.threw <=> ~(PositiveTotal /\ PositiveCount))

(* C14: the plan carries the per-participant amount at full precision, 7   *)
(* fractional digits, next to its 2-digit display value, and the amount    *)
(* handed to the executor for each transfer is the 7-digit one.            *)
C14_ExecutorGetsFullPrecision ==
    (SplitCalled /\ PositiveTotal /\ PositiveCount /\ ~call.out.threw) =>
        LET perPerson7 == RoundDiv(call.args[1].v, call.args[2].v)
        IN /\ call.out.perPerson \in {perPerson7, toFixed2(perPerson7)}
           /\ amountForExecutor(call.out) = perPerson7

-----------------------------------------------------------------------------
(* Reading a call of validateParticipants *)

ValidateCalled == call.fn = "validateParticipants"

Input == call.args[1]

(* The input positions, counted from 1, that the errors name *)
ErrorPositions == {call.out.errors[j].index + 1 : j \in 1..Len(call.out.errors)}

(* The input positions no error names, in input order *)
KeptPositions ==
    SelectSeq([i \in 1..Len(Input) |-> i], LAMBDA i : i \notin ErrorPositions)

(* C15: validateParticipants returns a complete partition of the input     *)
(* positions: every position is in exactly one of valid and errors, the    *)
(* two lengths add up to the input length, and valid holds the accepted    *)
(* addresses in their input order, duplicates kept.                        *)
C15_CompletePartition ==
    ValidateCalled =>
        /\ Len(call.out.valid) + Len(call.out.errors) = Len(Input)
        /\ ErrorPositions \subseteq 1..Len(Input)
        /\ Cardinality(ErrorPositions) = Len(call.out.errors)
        /\ Len(call.out.valid) = Len(KeptPositions)
        /\ \A k \in 1..Len(KeptPositions) :
              call.out.valid[k] = trim(Input[KeptPositions[k]])

C15_Witness ==
    /\ ValidateCalled
    /\ Len(Input) = 3
    /\ ErrorPositions = {2}
    /\ call.out.valid = <<GB, GA>>

(* C16: an address that fails decoding is always in errors and never in    *)
(* valid, also when it has 56 characters and the prefix G; every address   *)
(* in valid decodes as a public key.                                       *)
C16_UndecodableRejected ==
    ValidateCalled =>
        /\ \A i \in 1..Len(Input) : ~decodes(trim(Input[i])) => i \in ErrorPositions
        /\ \A k \in 1..Len(call.out.valid) : decodes(call.out.valid[k])

C16_Witness ==
    /\ ValidateCalled
    /\ Input = <<GA, GBADSUM>>
    /\ call.out.valid = <<GA>>
    /\ Len(call.out.errors) = 1
    /\ call.out.errors[1].error = "Invalid Stellar address"

(* C17: every entry of errors carries the position its address had in the  *)
(* input and one reason, that of the first check that fails in the order   *)
(* empty, wrong length, wrong prefix, failed decoding; the entries are in  *)
(* input order.                                                            *)
C17_FirstFailingCheck ==
    ValidateCalled =>
        \A j \in 1..Len(call.out.errors) :
            LET e == call.out.errors[j]
                a == trim(Input[e.index + 1])
            IN /\ e.index \in 0..(Len(Input) - 1)
               /\ e.address = a
               /\ j > 1 => call.out.errors[j - 1].index < e.index
               /\ e.error \in {"Empty address", "Must be 56 characters",
                                "Must start with G", "Invalid Stellar address"}
               /\ e.error = "Empty address" <=> a = ""
               /\ e.error = "Must be 56 characters" <=> (a # "" /\ Len(a) # 56)
               /\ e.error = "Must start with G" <=>
                     (a # "" /\ Len(a) = 56 /\ ~startsWithG(a))
               /\ e.error = "Invalid Stellar address" =>
                     (Len(a) = 56 /\ startsWithG(a) /\ ~decodes(a))

C17_Witness ==
    /\ ValidateCalled
    /\ Input = <<XSHORT, GA, "   ">>
    /\ Len(call.out.errors) = 2
    /\ call.out.errors[1] = [index |-> 0, address |-> XSHORT, error |-> "Must be 56 characters"]
    /\ call.out.errors[2] = [index |-> 2, address |-> "", error |-> "Empty address"]

-----------------------------------------------------------------------------
(* Reading a call of the balance check *)

CheckCalled == call.fn = "checkSufficientBalance"

PreCheckCalled == call.fn \in {"validateBalanceForSplit", "validateBalanceForPayment"}

QueryThrew == call.args[1].threw

(* C18: on a loaded account the check reports sufficient exactly when      *)
(* available >= amount + flat fee x count, compared in minimum units and   *)
(* not on the 2-decimal values it displays; required is that total cost    *)
(* rounded to 2 decimals.                                                  *)
C18_SufficientAtFullPrecision ==
    (CheckCalled /\ ~QueryThrew) =>
        LET available == call.args[1].balance
            cost == call.args[2].v + BASE_FEE_XLM * call.args[3]
        IN /\ ~call.out.threw
           /\ call.out.sufficient <=> available >= cost
           /\ call.out.required = toFixed2(cost)
           /\ call.out.available = toFixed2(available)

(* C19: the pre-check fails open: when the account query throws, the       *)
(* pre-check returns true (proceed) and throws nothing to its caller.      *)
C19_PreCheckFailsOpen ==
    (PreCheckCalled /\ QueryThrew) => (~call.out.threw /\ call.out.value = TRUE)

C19_Witness ==
    /\ call.fn = "validateBalanceForSplit"
    /\ QueryThrew
    /\ call.out.value = TRUE
    /\ ~call.out.warning

-----------------------------------------------------------------------------
(* C20: the outcome list of a run is append-only: every step leaves each   *)
(* outcome already recorded unchanged (participant, amount, status, hash,  *)
(* error) at its position, and adds at most one outcome, at the end.       *)
C20_OutcomesAppendOnly ==
    [][\A r \in RunIds :
          LET before == runs[r].results
              after == runs'[r].results
          IN /\ Len(before) <= Len(after)
             /\ Len(after) <= Len(before) + 1
             /\ \A j \in 1..Len(before) : after[j] = before[j]]_vars

C20_Witness ==
    \E r \in RunIds :
        /\ Len(runs[r].results) = 3
        /\ runs[r].results[1].status = "success"
        /\ runs[r].results[2].status = "success"
        /\ runs[r].results[3].status = "failed"

-----------------------------------------------------------------------------
(* The calls of op made for position i, as positions of the log *)
Calls(run, op, i) == {j \in 1..Len(run.log) : run.log[j] = <<op, i, "call">>}

(* C21: within one run each position is attempted at most once: at most    *)
(* one signature request and at most one submission per position, a        *)
(* submission only after the signature request of that position succeeded, *)
(* and after a failed step no further call is made for that position.      *)
C21_OneAttemptPerPosition ==
    \A r \in RunIds :
        LET run == runs[r] IN
        /\ \A i \in 1..N(run) :
              /\ Cardinality(Calls(run, "loadAccount", i)) <= 1
              /\ Cardinality(Calls(run, "sign", i)) <= 1
              /\ Cardinality(Calls(run, "submit", i)) <= 1
              /\ \A j \in Calls(run, "submit", i) :
                    \E h \in 1..(j - 1) : run.log[h] = <<"sign", i, "ok">>
        /\ Failed(run) =>
              \A j \in 1..Len(run.log) :
                  run.log[j] = <<run.fail.step, run.fail.index, "err">> => j = Len(run.log)

C21_Witness ==
    \E r \in RunIds :
        /\ runs[r].st = "returned"
        /\ runs[r].fail.step = "sign"
        /\ runs[r].fail.index = 2
        /\ Has(runs[r].log, <<"submit", 1, "ok">>)
        /\ N(runs[r]) = 3

-----------------------------------------------------------------------------
(* The run has returned its outcome list after at most N iterations, with  *)
(* N outcomes or with a failed outcome as its last entry                   *)
ReturnedList(run) ==
    /\ run.st = "returned"
    /\ run.currentIndex <= N(run)
    /\ \A j \in 1..Len(run.log) : run.log[j][2] <= N(run)
    /\ \/ Len(run.results) = N(run)
       \/ (run.results # <<>> /\ Last(run.results).status = "failed")

(* C22: if every account query, fee query, signature request and           *)
(* submission eventually returns or fails, a started run eventually        *)
(* returns its outcome list, after at most N iterations, with N outcomes   *)
(* or with a failed outcome last.                                          *)
C22_RunEventuallyReturns ==
    \A r \in RunIds : (runs[r].st # "idle") ~> ReturnedList(runs[r])

-----------------------------------------------------------------------------
(* The preview handler p returns in this step (main.js:491-507) *)
PreviewReturns(p) == previews[p].st = "validateBalance" /\ previews'[p].st = "idle"

(* main.js:501-502  the Execute action of the preview p *)
ExecuteAction(p) ==
    [set |-> TRUE, participants |-> previews[p].valid,
     amountPerPerson |-> previews[p].perPerson, memo |-> previews[p].memo]

(* C23: the balance pre-check is advisory on the pre-check path: whatever  *)
(* it answers, insufficient included, the preview handler goes on to show  *)
(* the preview and to install the Execute action of that preview.          *)
C23_PreCheckAdvisory ==
    [][\A p \in PreviewIds :
          PreviewReturns(p) =>
              /\ previewBtn'.text = "Execute Split"
              /\ previewBtn'.onclick = ExecuteAction(p)]_vars

-----------------------------------------------------------------------------
(* The number of occurrences of a in the list *)
Count(list, a) == Cardinality({j \in 1..Len(list) : list[j] = a})

Trimmed(addresses) == [j \in 1..Len(addresses) |-> trim(addresses[j])]

(* C24: duplicates are preserved end to end: an accepted address that      *)
(* occurs k times in the entered list occurs k times in valid, and a run   *)
(* over that list in which every step succeeds makes one transfer per      *)
(* occurrence, at the positions of the occurrences.                        *)
C24_DuplicatesPreserved ==
    ValidateCalled =>
        /\ \A a \in Recipients :
              Count(call.out.valid, a) = Count(Trimmed(call.args[1]), a)
        /\ \A r \in RunIds :
              LET run == runs[r] IN
              (run.st = "returned" /\ ~Failed(run)) =>
                  /\ Len(run.results) = Len(call.args[1])
                  /\ \A j \in 1..Len(run.results) :
                        /\ run.results[j].recipient = trim(call.args[1][j])
                        /\ run.results[j].status = "success"
                        /\ Has(run.log, <<"submit", j, "ok">>)
                  /\ \A i, j \in 1..Len(run.results) :
                        i # j => run.results[i].hash # run.results[j].hash
                  /\ \A a \in Recipients :
                        Count([j \in 1..Len(run.results) |-> run.results[j].recipient], a)
                            = Count(Trimmed(call.args[1]), a)

C24_Witness ==
    /\ ValidateCalled
    /\ call.args[1] = <<GA, GB, " " \o GA \o " ">>
    /\ runs[1].st = "returned"
    /\ ~Failed(runs[1])
    /\ Len(runs[1].results) = 3

-----------------------------------------------------------------------------
(* Reading a recorded click on #previewSplitBtn *)

ClickRecorded == call'.fn = "previewSplitBtn.click" /\ call' # call

ClickedList == call'.args[2]

(* The list of the last click holds an invalid address *)
LastClickInvalid ==
    call.fn = "previewSplitBtn.click" /\ validateParticipants(call.args[2]).errors # <<>>

(* The transfer of run r is applied by the ledger in this step *)
TransferMade(r) ==
    runs[r].st = "submit" /\ balance'[runs[r].publicKey] < balance[runs[r].publicKey]

(* C25: validation is all-or-nothing: a click whose list holds an invalid  *)
(* address starts no preview and installs no Execute action, and after it  *)
(* no transfer is made to any address of that list, the valid ones         *)
(* included.                                                               *)
C25_AllOrNothing ==
    [][/\ (ClickRecorded /\ validateParticipants(ClickedList).errors # <<>>) =>
              /\ previews' = previews
              /\ previewBtn'.onclick = previewBtn.onclick
              /\ previewBtn'.text = previewBtn.text
       /\ LastClickInvalid =>
              \A r \in RunIds :
                  TransferMade(r) =>
                      \A j \in 1..Len(call.args[2]) :
                          runs[r].tx.destination # trim(call.args[2][j])]_vars

-----------------------------------------------------------------------------
RECURSIVE TransferredFrom(_, _)
(* The sum of the amounts of the success outcomes from position j on *)
TransferredFrom(results, j) ==
    IF j > Len(results) THEN 0
    ELSE (IF results[j].status = "success" THEN results[j].amount ELSE 0)
             + TransferredFrom(results, j + 1)

(* The preview handler p installs its Execute action in this step *)
InstallsExecute(p) == PreviewReturns(p) /\ previewBtn'.onclick = ExecuteAction(p)

(* C26: in a run started from a preview of total T over N participants the *)
(* sum of the amounts transferred never exceeds T: the Execute action a    *)
(* preview installs carries N recipients and an amount a with N x a <= T,  *)
(* and a run transfers at most its amount to each of its recipients.       *)
C26_SumWithinTotal ==
    [][/\ \A p \in PreviewIds :
              InstallsExecute(p) =>
                  Len(previewBtn'.onclick.participants) * previewBtn'.onclick.amountPerPerson
                      <= parseFloat(previews[p].total)
       /\ \A r \in RunIds :
              TransferredFrom(runs'[r].results, 1) <= N(runs'[r]) * runs'[r].amountPerPerson]_vars

-----------------------------------------------------------------------------
(* C27: for every positive total and positive count the preview handler    *)
(* accepts, the per-participant amount of the Execute action it installs,  *)
(* and of every run started from it, is strictly positive.                 *)
C27_PositiveAmount ==
    /\ previewBtn.onclick.set => previewBtn.onclick.amountPerPerson > 0
    /\ \A r \in RunIds : runs[r].st # "idle" => runs[r].amountPerPerson > 0

-----------------------------------------------------------------------------
(* The wallet is disconnected before and after this step *)
Disconnected == publicKey = NoKey /\ publicKey' = NoKey

(* Run r calls the collaborator op in this step *)
CallsNow(r, op) == runs[r].st # op /\ runs'[r].st = op

(* C28: while the wallet is disconnected, a run still in progress requests *)
(* no further signature and submits no further transfer, and its results   *)
(* are not rendered into the cleared split view.                           *)
C28_DisconnectStopsRun ==
    [][Disconnected =>
          /\ \A r \in RunIds : ~CallsNow(r, "sign") /\ ~CallsNow(r, "submit")
          /\ ~splitResults'.shown]_vars

-----------------------------------------------------------------------------
(* A run is started in this step *)
RunStarts(r) == runs[r].st = "idle" /\ runs'[r].st # "idle"

(* C29: a run can only start from an Execute action installed by a         *)
(* successful preview of the current wallet session: no Execute action is  *)
(* installed while no wallet is connected, so none outlives a Disconnect,  *)
(* and a click whose own preview attempt fails validation starts no run    *)
(* from the Execute action of an earlier preview.                          *)
C29_ExecuteFromCurrentPreview ==
    [][/\ publicKey' = NoKey => ~previewBtn'.onclick.set
       /\ \A r \in RunIds :
              (RunStarts(r) /\ ClickRecorded) =>
                  /\ ClickedList # <<>>
                  /\ validateParticipants(ClickedList).errors = <<>>]_vars

-----------------------------------------------------------------------------
(* C30: at most one history polling timer is live at any time, the live    *)
(* one is the one pollingInterval holds, and a call of stopHistoryPolling  *)
(* or clearHistory, or a Disconnect, leaves none live.                     *)
C30_OnePollingTimer ==
    /\ Cardinality(history.timers) <= 1
    /\ \A t \in history.timers : t.id = history.pollingInterval
    /\ stopHistoryPolling(history).timers = {}
    /\ clearHistory(history).timers = {}
    /\ clearHistory(stopHistoryPolling(history)).timers = {}
    /\ \A k \in Keys : Cardinality(startHistoryPolling(history, k).timers) = 1

C30_Witness ==
    /\ call.fn = "startHistoryPolling"
    /\ screen = "action"
    /\ publicKey # NoKey
    /\ Cardinality(history.timers) = 1
    /\ history.view = publicKey

-----------------------------------------------------------------------------
(* C31: once Disconnect has cleared the history view it stays empty until  *)
(* the next connect shows the action screen, and the view never shows the  *)
(* transactions of an identity other than the connected one: a fetch that  *)
(* was in flight for the previous identity renders neither after the clear *)
(* nor over the history of a newly connected identity.                     *)
C31_ClearedViewStaysEmpty ==
    /\ screen = "hero" => history.view = ""
    /\ history.view \in WalletKeys => history.view = publicKey

====
